---- MODULE Spec2Model ----
(***************************************************************************)
(* Model of the auto-hooking engine (Components/AutoHooked.py), of the     *)
(* expected-hook helper (utils.py) and of the construction of the          *)
(* interface adapter (Auto_HookPoint/HookedTransformerAdapter.py).         *)
(*                                                                         *)
(* Modules are objects on a heap: heap[id] is the object with identity id. *)
(* An object's `mods` is its nn.Module._modules ordered dict, a sequence   *)
(* of <<name, id>> pairs.  A dotted path "bla.0.hook_point" is the         *)
(* sequence of its segments <<"bla", "0", "hook_point">>; module names     *)
(* never contain a dot, so the two forms correspond one to one, and the    *)
(* empty prefix '' is <<>>.                                                *)
(***************************************************************************)
EXTENDS Integers, Sequences, FiniteSets, TLC

\* Largest number of descendants of the root module of an input tree.
MaxNodes == 3

\* ------------------------------------------------------------------------
\* Input module trees (the user's nn.Module, before auto_hook)
\* ------------------------------------------------------------------------

\* Kinds of module.  "Linear" is a leaf with a forward, "Module" a user
\* module with a forward that delegates to its children.
LeafKinds == {"Linear", "HookPoint"}

OrderedKinds == {"ModuleList", "Sequential"}

ContainerKinds == OrderedKinds \cup {"ModuleDict"}

AttrNames == <<"a", "b", "c", "d", "e">>

DictKeys == <<"x", "y", "z", "w", "v">>

\* Name of the i-th child (1-based) of a tree node: attribute names for a
\* user module (the first one is hook_point when the node's hp flag is
\* set), str(i-1) for ModuleList/Sequential, the key for ModuleDict.
ChildName(kind, hp, i) ==
    IF kind = "Module"
    THEN (IF hp /\ i = 1 THEN "hook_point" ELSE AttrNames[i])
    ELSE IF kind = "ModuleDict" THEN DictKeys[i] ELSE ToString(i - 1)

RECURSIVE Trees(_), Forests(_)
\* All trees with exactly n nodes.
Trees(n) ==
    IF n = 1
    THEN {[kind |-> k, kids |-> <<>>, hp |-> FALSE] : k \in LeafKinds}
    ELSE {[kind |-> k, kids |-> f, hp |-> FALSE] :
              k \in ContainerKinds, f \in Forests(n - 1)}
         \cup {[kind |-> "Module", kids |-> f, hp |-> b] :
                  f \in Forests(n - 1), b \in BOOLEAN}

\* All non-empty sequences of trees with exactly n nodes in total.
Forests(n) ==
    UNION {{<<t>> \o rest : t \in Trees(k),
                            rest \in (IF k = n THEN {<<>>} ELSE Forests(n - k))} :
           k \in 1..n}

\* The root is a user module with between 1 and MaxNodes descendants.
RootTrees ==
    UNION {{[kind |-> "Module", kids |-> f, hp |-> b] :
               f \in Forests(n), b \in BOOLEAN} : n \in 1..MaxNodes}

\* ------------------------------------------------------------------------
\* The heap
\* ------------------------------------------------------------------------

\* A fresh object.  fwd is the object whose forward a HookedInstance
\* captured (0 for any other object), name the attribute module.name set by
\* setup() (<<>> while unset), hook_dict the ordered dict setup() builds,
\* unwrap the object the installed unwrap lambda returns (0: none).
NewObj(kind) ==
    [kind |-> kind, mods |-> <<>>, fwd |-> 0, name |-> <<>>,
     hook_dict |-> <<>>, unwrap |-> 0]

\* Index of key n in an ordered dict d (0 when absent).
IndexOf(d, n) ==
    IF \E i \in 1..Len(d) : d[i][1] = n
    THEN CHOOSE i \in 1..Len(d) : d[i][1] = n
    ELSE 0

\* d[n] = v on an ordered dict: an existing key keeps its position.
DictSet(d, n, v) ==
    IF IndexOf(d, n) = 0
    THEN Append(d, <<n, v>>)
    ELSE [d EXCEPT ![IndexOf(d, n)] = <<n, v>>]

\* hasattr(obj, n) for a module attribute n.
HasAttr(h, id, n) == IndexOf(h[id].mods, n) # 0

\* getattr(obj, n); 0 stands for AttributeError.
GetAttr(h, id, n) ==
    IF HasAttr(h, id, n) THEN h[id].mods[IndexOf(h[id].mods, n)][2] ELSE 0

\* setattr(obj, n, v) with v a module: nn.Module.__setattr__ stores it in
\* _modules; container.append / container[key] = v do the same.
SetAttr(h, id, n, v) == [h EXCEPT ![id].mods = DictSet(@, n, v)]

RECURSIVE BuildNode(_, _), BuildKids(_, _, _, _)
\* Constructs the module tree t on heap h; the node gets the next identity.
BuildNode(h, t) ==
    LET id == Len(h) + 1
        h1 == Append(h, NewObj(t.kind))
    IN  [h |-> BuildKids(h1, id, t, 1), id |-> id]

BuildKids(h, id, t, i) ==
    IF i > Len(t.kids) THEN h
    ELSE LET r == BuildNode(h, t.kids[i])
         IN  BuildKids(SetAttr(r.h, id, ChildName(t.kind, t.hp, i), r.id),
                       id, t, i + 1)

\* ------------------------------------------------------------------------
\* HookedInstance.named_modules and nn.Module.named_modules
\* ------------------------------------------------------------------------

\* prefix + ('.' if prefix else '') + name
Join(prefix, name) == Append(prefix, name)

\* A traversal in progress: out is the sequence of the <<path, node>> pairs
\* yielded so far, memo the memo set shared by the nested generators.
NoneYielded == [out |-> <<>>, memo |-> {}]

\* yield name, module
Yield(acc, name, module) == [acc EXCEPT !.out = Append(@, <<name, module>>)]

\* memo.add(self); yield prefix, self
Enter(acc, prefix, self) ==
    [out |-> Append(acc.out, <<prefix, self>>), memo |-> acc.memo \cup {self}]

\* if hasattr(self, 'hook_point'): yield prefix.hook_point, self.hook_point
YieldHookPoint(h, self, acc, prefix) ==
    IF HasAttr(h, self, "hook_point")
    THEN [acc EXCEPT !.out = Append(@, <<Join(prefix, "hook_point"),
                                         GetAttr(h, self, "hook_point")>>)]
    ELSE acc

RECURSIVE named_modules(_, _, _, _), NamedChildrenLoop(_, _, _, _, _),
          NamedChild(_, _, _, _), torch_named_modules(_, _, _, _),
          TorchModulesLoop(_, _, _, _, _)

\* HookedInstance.named_modules(memo, prefix), run to exhaustion from the
\* traversal acc.  Any other module answers with nn.Module.named_modules.
named_modules(h, self, acc, prefix) ==
    CASE h[self].kind # "HookedInstance" ->
             torch_named_modules(h, self, acc, prefix)
      [] h[self].kind = "HookedInstance" /\ self \in acc.memo -> acc
      [] OTHER ->
             YieldHookPoint(h, self,
                            NamedChildrenLoop(h, GetAttr(h, self, "_module"),
                                              Len(h[GetAttr(h, self, "_module")].mods),
                                              Enter(acc, prefix, self), prefix),
                            prefix)

\* The traversal after the first n rounds of the loop
\* `for name, module in self._module.named_children()` of
\* HookedInstance.named_modules, entered with the traversal acc.  A round
\* leaves its module in memo, so the module that named_children() does not
\* yield a second time is one the body would skip anyway: the loop runs
\* over every entry of _modules.
NamedChildrenLoop(h, mod, n, acc, prefix) ==
    IF n = 0 THEN acc
    ELSE NamedChild(h, h[mod].mods[n][2],
                    NamedChildrenLoop(h, mod, n - 1, acc, prefix),
                    Join(prefix, h[mod].mods[n][1]))

\* The body of that loop for the child module under the path sp.
NamedChild(h, module, acc, sp) ==
    CASE module \in acc.memo -> acc
      [] module \notin acc.memo /\ h[module].kind = "HookedInstance" ->
             named_modules(h, module, acc, sp)
      [] OTHER -> torch_named_modules(h, module, Yield(acc, sp, module), sp)

\* nn.Module.named_modules(memo, prefix, remove_duplicate=True).
torch_named_modules(h, self, acc, prefix) ==
    CASE h[self].kind = "HookedInstance" -> named_modules(h, self, acc, prefix)
      [] h[self].kind # "HookedInstance" /\ self \in acc.memo -> acc
      [] OTHER -> TorchModulesLoop(h, self, Len(h[self].mods),
                                   Enter(acc, prefix, self), prefix)

\* The traversal after the first n rounds of its loop over self._modules.
TorchModulesLoop(h, self, n, acc, prefix) ==
    IF n = 0 THEN acc
    ELSE torch_named_modules(h, h[self].mods[n][2],
                             TorchModulesLoop(h, self, n - 1, acc, prefix),
                             Join(prefix, h[self].mods[n][1]))

\* ------------------------------------------------------------------------
\* HookedRootModule.setup, list_all_hooks
\* ------------------------------------------------------------------------

\* The largest element of a non-empty set of numbers.
Max(S) == CHOOSE i \in S : \A j \in S : j <= i

\* setup loops over nm = self.named_modules(): an iteration whose name is ''
\* is skipped, any other one sets module.name = name and, for a HookPoint,
\* hook_dict[name] = module.  Named(nm) is the iterations that are not
\* skipped, by position in nm.
Named(nm) == {i \in 1..Len(nm) : nm[i][1] # <<>>}

\* module.name if the loop left alone a module that already has a name.
NameAfterKeepingFirst(h, nm, module) ==
    LET I == {i \in Named(nm) : nm[i][2] = module}
    IN  IF I = {} \/ h[module].name # <<>> THEN h[module].name ELSE nm[Max(I)][1]

\* module.name after the loop: the name the last iteration on module gave.
NameAfter(h, nm, module) ==
    LET I == {i \in Named(nm) : nm[i][2] = module}
    IN  IF I = {} THEN h[module].name ELSE nm[Max(I)][1]

\* hook_dict after the loop: a key stands where it was first inserted and
\* holds the value last assigned to it.
HookDictAfter(h, nm) ==
    LET E == {i \in Named(nm) : h[nm[i][2]].kind = "HookPoint"}
        F == {i \in E : \A j \in E : nm[j][1] = nm[i][1] => i <= j}
        At(k) == CHOOSE i \in F : Cardinality({j \in F : j < i}) = k - 1
        Last(i) == Max({j \in E : nm[j][1] = nm[i][1]})
    IN  SubSeq([k \in 1..Cardinality(F) |->
                   <<nm[At(k)][1], nm[Last(At(k))][2]>>], 1, Cardinality(F))

setup(h, self) ==
    LET nm == named_modules(h, self, NoneYielded, <<>>).out
    IN  SubSeq([id \in DOMAIN h |->
                   [h[id] EXCEPT !.name = NameAfter(h, nm, id),
                                 !.hook_dict = IF id = self
                                               THEN HookDictAfter(h, nm)
                                               ELSE @]], 1, Len(h))

\* list_all_hooks(): the (name, hook point) pairs of self.hook_dict.
list_all_hooks(h, self) == h[self].hook_dict

HookNames(h, self) == {list_all_hooks(h, self)[i][1] :
                          i \in 1..Len(list_all_hooks(h, self))}

\* ------------------------------------------------------------------------
\* auto_hook, HookedInstance.__init__, _wrap_submodules
\* ------------------------------------------------------------------------

\* An operation that constructs objects takes the heap and returns the heap
\* afterwards; the first object it constructs gets the identity Len(h) + 1.

RECURSIVE auto_hook(_, _), HookedInstance(_, _), wrap_submodules(_, _),
          WrapLoop(_, _, _, _), WrapChild(_, _, _, _), AppendHooked(_, _, _),
          PutHooked(_, _, _, _), WrapOrdered(_, _, _, _), WrapDict(_, _, _, _)

\* super().__init__(); self._module = module
NewHookedInstance(h, module) ==
    Append(h, [NewObj("HookedInstance") EXCEPT
                   !.mods = <<<<"_module", module>>>>])

\* _create_forward: new_forward closes over original_forward, the forward
\* of the object that is self._module at this moment.
create_forward(h, self) == [h EXCEPT ![self].fwd = GetAttr(h, self, "_module")]

\* __init__ without its guard: a hook point is attached to every instance.
AttachHookPointAlways(h, self) ==
    SetAttr(Append(h, NewObj("HookPoint")), self, "hook_point", Len(h) + 1)

\* The idempotence guard of __init__: a hook point is attached unless the
\* wrapped module already has an attribute named hook_point.
AttachHookPoint(h, self) ==
    IF ~HasAttr(h, GetAttr(h, self, "_module"), "hook_point")
    THEN SetAttr(Append(h, NewObj("HookPoint")), self, "hook_point", Len(h) + 1)
    ELSE h

\* HookedInstance(module): the heap after __init__ has run on the new
\* object, self = Len(h) + 1.
HookedInstance(h, module) ==
    setup(wrap_submodules(create_forward(AttachHookPoint(
              NewHookedInstance(h, module), Len(h) + 1), Len(h) + 1),
                          Len(h) + 1), Len(h) + 1)

\* auto_hook(module) for a module instance, returning the object Len(h) + 1:
\* the unwrap lambda returns module.
auto_hook(h, module) ==
    [HookedInstance(h, module) EXCEPT ![Len(h) + 1].unwrap = module]

\* _wrap_submodules: the loop over self._module.named_children(), one
\* round for each entry of _modules.  children is _modules as the loop
\* finds it: a round replaces the value of its own entry only.
wrap_submodules(h, self) ==
    WrapLoop(h, GetAttr(h, self, "_module"),
             h[GetAttr(h, self, "_module")].mods,
             Len(h[GetAttr(h, self, "_module")].mods))

\* The heap after the first n rounds of that loop on the module mod.
WrapLoop(h, mod, children, n) ==
    IF n = 0 THEN h
    ELSE WrapChild(WrapLoop(h, mod, children, n - 1), mod, children, n)

\* The i-th round, on the i-th entry (name, submodule) of mod._modules:
\* named_children() does not yield a module it has yielded under an
\* earlier name; setattr(self._module, name, v) replaces the value of the
\* entry of a module it yields.
WrapChild(h, mod, children, i) ==
    CASE \E j \in 1..(i - 1) : children[j][2] = children[i][2] -> h
      [] h[h[mod].mods[i][2]].kind = "HookPoint" -> h
      [] h[h[mod].mods[i][2]].kind \in OrderedKinds ->
             [WrapOrdered(Append(h, NewObj(h[h[mod].mods[i][2]].kind)),
                          h[mod].mods[i][2], Len(h) + 1,
                          Len(h[h[mod].mods[i][2]].mods))
                  EXCEPT ![mod].mods[i][2] = Len(h) + 1]
      [] h[h[mod].mods[i][2]].kind = "ModuleDict" ->
             [WrapDict(Append(h, NewObj(h[h[mod].mods[i][2]].kind)),
                       h[mod].mods[i][2], Len(h) + 1,
                       Len(h[h[mod].mods[i][2]].mods))
                  EXCEPT ![mod].mods[i][2] = Len(h) + 1]
      [] OTHER -> [auto_hook(h, h[mod].mods[i][2])
                       EXCEPT ![mod].mods[i][2] = Len(h) + 1]

\* Hooked_container.append(auto_hook(m)) on the container c
AppendHooked(h, c, m) ==
    [auto_hook(h, m) EXCEPT
         ![c].mods = Append(@, <<ToString(Len(@)), Len(h) + 1>>)]

\* Hooked_container[key] = auto_hook(m) on the container c
PutHooked(h, c, key, m) ==
    [auto_hook(h, m) EXCEPT ![c].mods = DictSet(@, key, Len(h) + 1)]

\* for i, m in enumerate(submodule): Hooked_container.append(auto_hook(m))
\* with the `continue` of the HookPoint rule applied to the elements too: a
\* HookPoint element is dropped from the new container c.
WrapOrderedSkipping(h, submodule, c, n) ==
    IF n = 0 THEN h
    ELSE IF h[h[submodule].mods[n][2]].kind = "HookPoint"
    THEN WrapOrdered(h, submodule, c, n - 1)
    ELSE AppendHooked(WrapOrdered(h, submodule, c, n - 1), c,
                      h[submodule].mods[n][2])

\* The heap after the first n rounds of
\* for i, m in enumerate(submodule): Hooked_container.append(auto_hook(m))
WrapOrdered(h, submodule, c, n) ==
    IF n = 0 THEN h
    ELSE AppendHooked(WrapOrdered(h, submodule, c, n - 1), c,
                      h[submodule].mods[n][2])

\* The heap after the first n rounds of
\* for key, m in submodule.items(): Hooked_container[key] = auto_hook(m)
WrapDict(h, submodule, c, n) ==
    IF n = 0 THEN h
    ELSE PutHooked(WrapDict(h, submodule, c, n - 1), c,
                   h[submodule].mods[n][1], h[submodule].mods[n][2])

\* ------------------------------------------------------------------------
\* HookedInstance.unwrap_instance
\* ------------------------------------------------------------------------

RECURSIVE unwrap_instance(_, _), UnwrapLoop(_, _, _, _),
          UnwrapChild(_, _, _, _), UnwrapElement(_, _),
          UnwrapOrdered(_, _, _, _), UnwrapDict(_, _, _, _)

\* The value of `m.unwrap_instance() if isinstance(m, HookedInstance) else m`
\* on the heap h that evaluating it leaves: unwrap_instance returns
\* self._module.
Unwrapped(h, m) ==
    IF h[m].kind = "HookedInstance" THEN GetAttr(h, m, "_module") ELSE m

\* That expression without the recursion: the element's _module is taken
\* as it is, its own children still instrumented.
UnwrapElementShallow(h, m) == h

\* The heap after `m.unwrap_instance() if isinstance(m, HookedInstance)
\* else m` has been evaluated.
UnwrapElement(h, m) ==
    IF h[m].kind = "HookedInstance" THEN unwrap_instance(h, m) ELSE h

\* unHooked_container.append(v), v the value of the expression for m on h.
AppendUnwrapped(h, c, m) ==
    SetAttr(h, c, ToString(Len(h[c].mods)), Unwrapped(h, m))

\* unHooked_container[key] = v, v the value of the expression for m on h.
PutUnwrapped(h, c, key, m) == SetAttr(h, c, key, Unwrapped(h, m))

\* The heap after the first n rounds of
\* for m in submodule: unHooked_container.append(...)
UnwrapOrdered(h, submodule, c, n) ==
    IF n = 0 THEN h
    ELSE AppendUnwrapped(UnwrapElement(UnwrapOrdered(h, submodule, c, n - 1),
                                       h[submodule].mods[n][2]),
                         c, h[submodule].mods[n][2])

\* The heap after the first n rounds of
\* for key, m in submodule.items(): unHooked_container[key] = ...
UnwrapDict(h, submodule, c, n) ==
    IF n = 0 THEN h
    ELSE PutUnwrapped(UnwrapElement(UnwrapDict(h, submodule, c, n - 1),
                                    h[submodule].mods[n][2]),
                      c, h[submodule].mods[n][1], h[submodule].mods[n][2])

\* setattr(self._module, name, v)
SetOnModule(h, self, name, v) == SetAttr(h, GetAttr(h, self, "_module"), name, v)

\* setattr(self._module, name, submodule.unwrap_instance()), on the heap
\* the call leaves.
SetUnwrapped(h, self, name, submodule) ==
    SetOnModule(h, self, name, Unwrapped(h, submodule))

\* The heap after the first n rounds of the loop over
\* self._module.named_children() of unwrap_instance; mod is the module
\* whose children are enumerated.  The entries of an instrumented module
\* unwrapped here hold pairwise distinct objects, so named_children()
\* yields each of them.
UnwrapLoop(h, self, mod, n) ==
    IF n = 0 THEN h
    ELSE UnwrapChild(UnwrapLoop(h, self, mod, n - 1), self,
                     h[mod].mods[n][1], mod)

\* The round of that loop on the entry of mod._modules under name.
UnwrapChild(h, self, name, mod) ==
    CASE h[GetAttr(h, mod, name)].kind \in ContainerKinds \ {"ModuleDict"} ->
             SetOnModule(UnwrapOrdered(Append(h, NewObj(h[GetAttr(h, mod, name)].kind)),
                                       GetAttr(h, mod, name), Len(h) + 1,
                                       Len(h[GetAttr(h, mod, name)].mods)),
                         self, name, Len(h) + 1)
      [] h[GetAttr(h, mod, name)].kind = "ModuleDict" ->
             SetOnModule(UnwrapDict(Append(h, NewObj(h[GetAttr(h, mod, name)].kind)),
                                    GetAttr(h, mod, name), Len(h) + 1,
                                    Len(h[GetAttr(h, mod, name)].mods)),
                         self, name, Len(h) + 1)
      [] h[GetAttr(h, mod, name)].kind = "HookedInstance" ->
             SetUnwrapped(unwrap_instance(h, GetAttr(h, mod, name)), self, name,
                          GetAttr(h, mod, name))
      [] OTHER -> h

\* self.unwrap_instance(): the heap afterwards; the call returns
\* self._module.
unwrap_instance(h, self) ==
    UnwrapLoop(h, self, GetAttr(h, self, "_module"),
               Len(h[GetAttr(h, self, "_module")].mods))

\* hooked.unwrap(): the lambda auto_hook installed, `lambda: module_or_class`.
unwrap(h, self) == h[self].unwrap

\* ------------------------------------------------------------------------
\* One forward pass (run_with_hooks with an interceptor on every hook)
\* ------------------------------------------------------------------------

\* The trace of a pass is the sequence of its events:
\*   new_forward  a HookedInstance's new_forward was entered with args, kwargs
\*   forward      a module's own (class) forward was entered with args, kwargs
\*   hook         a HookPoint was called; its registered interceptor ran
\* err is the exception that ended the pass ("none": it completed).
Event(ev, obj, args, kwargs) ==
    [ev |-> ev, obj |-> obj, args |-> args, kwargs |-> kwargs]

Log(st, e) == [st EXCEPT !.trace = Append(@, e)]

Raise(st, e) == [st EXCEPT !.err = e]

\* The value a module's own forward returns.
Result(obj) == <<"result", obj>>

\* The call original_forward(*args): keyword arguments dropped.
original_call_args_only(args, kwargs) == [args |-> args, kwargs |-> {}]

\* Line 175, the call original_forward(*args, **kwargs): what new_forward
\* hands to the original forward.
original_call(args, kwargs) == [args |-> args, kwargs |-> kwargs]

RECURSIVE CallModule(_, _, _, _, _), new_forward(_, _, _, _, _),
          ClassForward(_, _, _, _, _), Invoke(_, _, _, _, _),
          InvokeEach(_, _, _, _, _, _), SequentialLoop(_, _, _, _, _)

\* module(*args, **kwargs), nn.Module.__call__: the instance's forward, and
\* for a HookPoint the forward hooks registered on it afterwards.
CallModule(h, obj, args, kwargs, st) ==
    IF st.err # "none" THEN st
    ELSE IF h[obj].kind = "HookedInstance"
    THEN new_forward(h, obj, args, kwargs, st)
    ELSE IF h[obj].kind = "HookPoint"
    THEN LET st1 == ClassForward(h, obj, args, kwargs, st)
         IN  IF st1.err # "none" THEN st1
             ELSE Log(st1, Event("hook", obj, args, kwargs))
    ELSE ClassForward(h, obj, args, kwargs, st)

\* new_forward of _create_forward:
\*     return self.hook_point(original_forward(*args, **kwargs))
\* self.hook_point is looked up after original_forward has returned.
new_forward(h, self, args, kwargs, st) ==
    LET c == original_call(args, kwargs)
        f == h[self].fwd
        st1 == Log(st, Event("new_forward", self, args, kwargs))
        st2 == IF h[f].kind = "HookedInstance"
               THEN new_forward(h, f, c.args, c.kwargs, st1)
               ELSE ClassForward(h, f, c.args, c.kwargs, st1)
    IN  IF st2.err # "none" THEN st2
        ELSE IF ~HasAttr(h, self, "hook_point")
        THEN Raise(st2, "AttributeError")
        ELSE CallModule(h, GetAttr(h, self, "hook_point"), <<Result(f)>>, {}, st2)

\* The forward a module's class defines.  A user module ("Module") calls
\* each of its children once, in order, with the arguments it was given;
\* Sequential.forward(input) takes no keyword and calls each element with
\* the input; ModuleList and ModuleDict have no forward.
ClassForward(h, obj, args, kwargs, st) ==
    LET kind == h[obj].kind
        st1 == Log(st, Event("forward", obj, args, kwargs))
    IN  IF kind \in {"ModuleList", "ModuleDict"}
        THEN Raise(st1, "NotImplementedError")
        ELSE IF kind = "Sequential"
        THEN (IF kwargs # {} THEN Raise(st1, "TypeError")
              ELSE SequentialLoop(h, obj, 1, args, st1))
        ELSE IF kind = "Module"
        THEN InvokeEach(h, obj, 1, args, kwargs, st1)
        ELSE st1

SequentialLoop(h, obj, i, args, st) ==
    IF i > Len(h[obj].mods) \/ st.err # "none" THEN st
    ELSE SequentialLoop(h, obj, i + 1, args,
                        CallModule(h, h[obj].mods[i][2], args, {}, st))

\* A user forward using its child c: a ModuleList or ModuleDict is used by
\* calling each of its elements; an instrumented one (a HookedInstance
\* around a ModuleList or ModuleDict) is iterated through
\* HookedInstance.__iter__, which iterates self._module; anything else is
\* called.
Invoke(h, c, args, kwargs, st) ==
    IF st.err # "none" THEN st
    ELSE IF h[c].kind \in {"ModuleList", "ModuleDict"}
    THEN InvokeEach(h, c, 1, args, kwargs, st)
    ELSE IF /\ h[c].kind = "HookedInstance"
            /\ h[GetAttr(h, c, "_module")].kind \in {"ModuleList", "ModuleDict"}
    THEN InvokeEach(h, GetAttr(h, c, "_module"), 1, args, kwargs, st)
    ELSE CallModule(h, c, args, kwargs, st)

InvokeEach(h, obj, i, args, kwargs, st) ==
    IF i > Len(h[obj].mods) \/ st.err # "none" THEN st
    ELSE InvokeEach(h, obj, i + 1, args, kwargs,
                    Invoke(h, h[obj].mods[i][2], args, kwargs, st))

\* run_with_hooks(*args, **kwargs) with an interceptor registered on every
\* name of list_all_hooks(): one call of the model's forward.
run_with_hooks(h, self, args, kwargs) ==
    new_forward(h, self, args, kwargs, [trace |-> <<>>, err |-> "none"])

\* utils.has_implemented_forward: ModuleList and ModuleDict have the
\* unimplemented forward of nn.Module; every other kind defines one.
has_implemented_forward(h, module) ==
    h[module].kind \notin {"ModuleList", "ModuleDict"}

\* ------------------------------------------------------------------------
\* HookedTransformerAdapter._get_attr_recursively
\* ------------------------------------------------------------------------

RECURSIVE get_attr_recursively(_, _, _)
\* for a in attr.split('.'): obj = getattr(obj, a).  obj = 0 with failed
\* the segment whose getattr raised AttributeError.
get_attr_recursively(h, obj, attr) ==
    IF attr = <<>> THEN [obj |-> obj, failed |-> ""]
    ELSE IF ~HasAttr(h, obj, Head(attr))
    THEN [obj |-> 0, failed |-> Head(attr)]
    ELSE get_attr_recursively(h, GetAttr(h, obj, Head(attr)), Tail(attr))

RECURSIVE PathsFrom(_, _)
\* Every non-empty dotted path that resolves from obj.
PathsFrom(h, obj) ==
    UNION {{<<h[obj].mods[i][1]>>} \cup
           {<<h[obj].mods[i][1]>> \o p : p \in PathsFrom(h, h[obj].mods[i][2])} :
           i \in 1..Len(h[obj].mods)}

\* ------------------------------------------------------------------------
\* HookedTransformerAdapter.__init__
\* ------------------------------------------------------------------------

\* The arguments of a construction.  hf_model_name, model and tokenizer say
\* whether the argument is given (not None); tokenizer_name is
\* cfg.tokenizer_name: "None", a name Hugging Face hosts, or one of
\* NON_HF_HOSTED_MODEL_NAMES; d_vocab is cfg.d_vocab, -1 when not declared;
\* map_cfg holds the dotted paths of the descriptor, the four slots other
\* than the blocks sharing one path, last_layernorm_attr <<>> for None.
AdapterArgs(paths, blockPaths) ==
    [hf_model_name : BOOLEAN, model : BOOLEAN, tokenizer : BOOLEAN,
     tokenizer_name : {"None", "hosted", "non_hf_hosted"},
     d_vocab : {-1, 50},
     positional_embedding_type : {"standard", "rotary"},
     map_cfg : {[block_attr |-> b, lm_head_attr |-> p, embedding_attr |-> p,
                 positional_embedding_attr |-> p, last_layernorm_attr |-> l] :
                   b \in blockPaths, p \in paths, l \in {<<>>} \cup paths}]

\* validate_args without its check: no combination is rejected here.
validate_args_skipped(in) == FALSE

\* validate_args: the ValueError condition.
validate_args(in) == in.hf_model_name = (in.model \/ in.tokenizer)

\* Lines 154-185: the tokenizer after resolution.  "given" and "loaded" are
\* tokenizers passed to set_tokenizer, "None" is self.tokenizer = None,
\* "unset" the non-hosted name, for which nothing is assigned, and
\* "AssertionError" the failed assert on d_vocab.
resolve_tokenizer(in) ==
    IF in.tokenizer THEN "given"
    ELSE IF in.tokenizer_name # "None"
    THEN (IF in.tokenizer_name = "non_hf_hosted" THEN "unset" ELSE "loaded")
    ELSE IF in.d_vocab # -1 THEN "None" ELSE "AssertionError"

\* Line 191, self.tokenizer.pad_token = self.tokenizer.eos_token: TRUE when
\* the statement runs to its end, FALSE when it raises AttributeError.
set_pad_token(tok) == tok \in {"given", "loaded"}

\* The dotted paths __init__ resolves on self.model, in the order of lines
\* 194-210.
SlotPaths(in) ==
    <<in.map_cfg.lm_head_attr, in.map_cfg.embedding_attr>>
    \o (IF in.map_cfg.last_layernorm_attr # <<>>
        THEN <<in.map_cfg.last_layernorm_attr>> ELSE <<>>)
    \o (IF in.positional_embedding_type # "rotary"
        THEN <<in.map_cfg.positional_embedding_attr>> ELSE <<>>)
    \o <<in.map_cfg.block_attr>>

\* _get_model_blocks asserts that the resolved blocks are Iterable and
\* Sized: the containers are; a HookedInstance has __iter__ but no __len__.
IsSized(h, obj) == h[obj].kind \in ContainerKinds

\* _get_model_blocks: the blocks in order, each with its forward replaced by
\* _wrap_block.
get_model_blocks(h, blocks) ==
    [i \in 1..Len(h[blocks].mods) |-> h[blocks].mods[i][2]]

\* The outcome of a construction that got past model resolution, h being
\* the heap with self.model = auto_hook(model) at object model.
BindSlots(h, model, in) ==
    LET tok == resolve_tokenizer(in)
        paths == SlotPaths(in)
        res == [i \in 1..Len(paths) |-> get_attr_recursively(h, model, paths[i])]
        blocks == res[Len(paths)].obj
        base == [stage |-> "MODEL_RESOLVED", error |-> "none", tokenizer |-> tok,
                 pad_token_set |-> FALSE, blocks |-> <<>>]
    IN  IF tok = "AssertionError"
        THEN [base EXCEPT !.error = "AssertionError", !.tokenizer = "unset"]
        ELSE IF ~set_pad_token(tok)
        THEN [base EXCEPT !.error = "AttributeError"]
        ELSE IF \E i \in 1..Len(paths) : res[i].obj = 0
        THEN [base EXCEPT !.stage = "TOKENIZER_RESOLVED", !.pad_token_set = TRUE,
                          !.error = "AttributeError"]
        ELSE IF ~IsSized(h, blocks)
        THEN [base EXCEPT !.stage = "TOKENIZER_RESOLVED", !.pad_token_set = TRUE,
                          !.error = "AssertionError"]
        ELSE [base EXCEPT !.stage = "READY", !.pad_token_set = TRUE,
                          !.blocks = get_model_blocks(h, blocks)]

\* HookedTransformerAdapter(map_cfg, cfg, ...): the heap afterwards and the
\* outcome.  m is the module given as model, or the one the name loads.
HookedTransformerAdapter(h, m, in) ==
    IF validate_args(in) \/ (~in.hf_model_name /\ ~(in.model /\ in.tokenizer))
    THEN [h |-> h, model |-> 0,
          out |-> [stage |-> "UNINITIALIZED", error |-> "ValueError",
                   tokenizer |-> "unset", pad_token_set |-> FALSE,
                   blocks |-> <<>>]]
    ELSE LET h1 == auto_hook(h, m)
         IN  [h |-> h1, model |-> Len(h) + 1,
              out |-> BindSlots(h1, Len(h) + 1, in)]

\* ------------------------------------------------------------------------
\* State
\* ------------------------------------------------------------------------

VARIABLES
    heap,     \* the objects
    heap0,    \* the heap as the user built it, before any auto_hook
    root,     \* the user's module m
    hooked,   \* the value auto_hook last returned (0: not called yet)
    pc,       \* what has been done to the module so far
    ret,      \* the object the last unwrap / unwrap_instance returned
    yielded,  \* what the last named_modules(prefix) call yielded
    lookup,   \* the last _get_attr_recursively call: path, root, result
    pass,     \* the last forward pass: arguments, trace, exception
    adapter   \* the last adapter construction: arguments and outcome

vars == <<heap, heap0, root, hooked, pc, ret, yielded, lookup, pass, adapter>>

NoAdapter == [in |-> <<>>, out |-> <<>>]

NoLookup == [path |-> <<>>, obj |-> 0, failed |-> ""]

NoPass == [args |-> <<>>, kwargs |-> {}, trace |-> <<>>, err |-> "none"]

\* Arguments of a forward pass: positional only, positional and keyword,
\* keyword only (as run_with_hooks(x=...) in basic_hook_test).
CallArgs == {[args |-> <<"x">>, kwargs |-> {}],
             [args |-> <<"x">>, kwargs |-> {"mask"}],
             [args |-> <<>>, kwargs |-> {"x"}]}

\* Prefixes named_modules is called with.
Prefixes == {<<>>, <<"model">>}

Init ==
    /\ \E t \in RootTrees : heap = BuildNode(<<>>, t).h
    /\ heap0 = heap
    /\ root = 1
    /\ hooked = 0
    /\ pc = "built"
    /\ ret = 0
    /\ yielded = <<>>
    /\ lookup = NoLookup
    /\ pass = NoPass
    /\ adapter = NoAdapter

\* hooked = auto_hook(m)
AutoHook ==
    /\ pc = "built"
    /\ heap' = auto_hook(heap, root)
    /\ hooked' = Len(heap) + 1
    /\ pc' = "hooked"
    /\ UNCHANGED <<heap0, root, ret, yielded, lookup, pass, adapter>>

\* m2 = hooked.unwrap_instance()
UnwrapInstance ==
    /\ pc = "hooked"
    /\ heap' = unwrap_instance(heap, hooked)
    /\ ret' = GetAttr(heap', hooked, "_module")
    /\ pc' = "unwrapped"
    /\ UNCHANGED <<heap0, root, hooked, yielded, lookup, pass, adapter>>

\* m2 = hooked.unwrap()
Unwrap ==
    /\ pc = "hooked"
    /\ ret' = unwrap(heap, hooked)
    /\ pc' = "unwrap_called"
    /\ UNCHANGED <<heap, heap0, root, hooked, yielded, lookup, pass, adapter>>

\* hooked = auto_hook(hooked): auto_hook applied to its own result
AutoHookAgain ==
    /\ pc = "hooked"
    /\ heap' = auto_hook(heap, hooked)
    /\ hooked' = Len(heap) + 1
    /\ pc' = "rehooked"
    /\ UNCHANGED <<heap0, root, ret, yielded, lookup, pass, adapter>>

\* list(hooked.named_modules(prefix=prefix))
NamedModules ==
    /\ pc = "hooked"
    /\ \E prefix \in Prefixes :
           yielded' = named_modules(heap, hooked, NoneYielded, prefix).out
    /\ pc' = "listed"
    /\ UNCHANGED <<heap, heap0, root, hooked, ret, lookup, pass, adapter>>

\* _get_attr_recursively(hooked, path), for a dotted path that resolves on
\* the original module, as it is or behind the _module attribute.
GetAttrRecursively ==
    /\ pc = "hooked"
    /\ \E p \in PathsFrom(heap0, root), via \in {<<>>, <<"_module">>} :
           LET r == get_attr_recursively(heap, hooked, via \o p)
           IN  lookup' = [path |-> via \o p, obj |-> r.obj, failed |-> r.failed]
    /\ pc' = "resolved"
    /\ UNCHANGED <<heap, heap0, root, hooked, ret, yielded, pass, adapter>>

\* hooked.run_with_hooks(*args, **kwargs, fwd_hooks=[one per hook name])
Forward ==
    /\ pc = "hooked"
    /\ \E c \in CallArgs :
           LET st == run_with_hooks(heap, hooked, c.args, c.kwargs)
           IN  pass' = [args |-> c.args, kwargs |-> c.kwargs,
                        trace |-> st.trace, err |-> st.err]
    /\ pc' = "forwarded"
    /\ UNCHANGED <<heap, heap0, root, hooked, ret, yielded, lookup, adapter>>

Next ==
    \/ AutoHook
    \/ UnwrapInstance
    \/ Unwrap
    \/ AutoHookAgain
    \/ NamedModules
    \/ GetAttrRecursively
    \/ Forward

Spec == Init /\ [][Next]_vars

\* The modules the adapter is constructed on: an embedding-like leaf a and
\* the blocks b, a ModuleList or a Sequential of user modules.
Leaf(kind) == [kind |-> kind, kids |-> <<>>, hp |-> FALSE]

Block == [kind |-> "Module", kids |-> <<Leaf("Linear")>>, hp |-> FALSE]

AdapterModels ==
    {[kind |-> "Module", hp |-> FALSE,
      kids |-> <<Leaf("Linear"), [kind |-> k, kids |-> bs, hp |-> FALSE]>>] :
         k \in OrderedKinds, bs \in {<<Block>>, <<Block, Block>>}}

InitAdapter ==
    /\ \E t \in AdapterModels : heap = BuildNode(<<>>, t).h
    /\ heap0 = heap
    /\ root = 1
    /\ hooked = 0
    /\ pc = "built"
    /\ ret = 0
    /\ yielded = <<>>
    /\ lookup = NoLookup
    /\ pass = NoPass
    /\ adapter = NoAdapter

\* HookedTransformerAdapter(map_cfg, cfg, hf_model_name, model=, tokenizer=)
\* with descriptor paths written for the original module, as they are or
\* behind the _module attribute of the instrumented one.
AdapterInit ==
    /\ pc = "built"
    /\ \E in \in AdapterArgs({<<"a">>, <<"_module", "a">>},
                             {<<"b">>, <<"_module", "b">>, <<"_module", "a">>}) :
           LET r == HookedTransformerAdapter(heap, root, in)
           IN  /\ heap' = r.h
               /\ hooked' = r.model
               /\ adapter' = [in |-> in, out |-> r.out]
    /\ pc' = "adapted"
    /\ UNCHANGED <<heap0, root, ret, yielded, lookup, pass>>

NextAdapter == AdapterInit

SpecAdapter == InitAdapter /\ [][NextAdapter]_vars

\* ------------------------------------------------------------------------
\* auto_hook on a module that holds one object at two positions
\* ------------------------------------------------------------------------

\* The positions <<p, i>> of heap h whose object can be registered a second
\* time: the i-th child of a user module p or the i-th element of a
\* ModuleList or Sequential p.
SharePoints(h) ==
    {x \in (1..Len(h)) \X (1..MaxNodes) :
        /\ h[x[1]].kind \in {"Module"} \cup OrderedKinds
        /\ x[2] <= Len(h[x[1]].mods)}

\* The user's module with the object at position <<p, i>> registered once
\* more in p: `self.<next name> = self.<name i>` in a user module,
\* `p.append(p[i])` in a ModuleList or Sequential.
Share(h, p, i) ==
    SetAttr(h, p, ChildName(h[p].kind, FALSE, Len(h[p].mods) + 1),
            h[p].mods[i][2])

\* The state after the construction of a user module that holds one
\* object at two positions.
InitShared ==
    /\ \E t \in RootTrees :
          \E x \in SharePoints(BuildNode(<<>>, t).h) :
              heap = Share(BuildNode(<<>>, t).h, x[1], x[2])
    /\ heap0 = heap
    /\ root = 1
    /\ hooked = 0
    /\ pc = "built"
    /\ ret = 0
    /\ yielded = <<>>
    /\ lookup = NoLookup
    /\ pass = NoPass
    /\ adapter = NoAdapter

NextShared == AutoHook

SpecShared == InitShared /\ [][NextShared]_vars

\* ------------------------------------------------------------------------
\* Properties
\* ------------------------------------------------------------------------

\* The objects of the original tree.
Nodes0 == 1..Len(heap0)

\* The children of object obj of heap h, as a set of identities.
Children(h, obj) == {h[obj].mods[i][2] : i \in 1..Len(h[obj].mods)}

\* The parent of a node of the original tree other than the root.
Parent0(n) == CHOOSE p \in Nodes0 : n \in Children(heap0, p)

RECURSIVE IsWrapped0(_)
\* The nodes of the original tree that auto_hook(root) instruments: the
\* root, every child of an instrumented node that is neither a HookPoint nor
\* a container, and every element of a container child.
IsWrapped0(n) ==
    IF n = root THEN TRUE
    ELSE IF IsWrapped0(Parent0(n))
    THEN heap0[n].kind \notin ContainerKinds \cup {"HookPoint"}
    ELSE TRUE

Wrapped0 == {n \in Nodes0 : IsWrapped0(n)}

RECURSIVE SameTree(_, _, _, _), NoHooked(_, _)
\* Object b of heap h heads the same tree as object a of heap h0: same kind,
\* same child names in the same order, the same objects for the children
\* that are not containers, and so on below.
SameTree(h0, a, h, b) ==
    /\ h0[a].kind = h[b].kind
    /\ Len(h0[a].mods) = Len(h[b].mods)
    /\ \A i \in 1..Len(h0[a].mods) :
          LET ca == h0[a].mods[i][2]
              cb == h[b].mods[i][2]
          IN  /\ h0[a].mods[i][1] = h[b].mods[i][1]
              /\ h0[ca].kind \notin ContainerKinds => ca = cb
              /\ SameTree(h0, ca, h, cb)

\* No HookedInstance is reachable from obj.
NoHooked(h, obj) ==
    /\ h[obj].kind # "HookedInstance"
    /\ \A c \in Children(h, obj) : NoHooked(h, c)

\* C1: auto_hook(m).unwrap_instance() returns the object m, and m then has,
\* at every depth, the child names, container kinds, keys and non-container
\* child objects it had before auto_hook, with no HookedInstance left.
RoundTrip ==
    pc = "unwrapped" =>
        /\ ret = root
        /\ SameTree(heap0, root, heap, ret)
        /\ NoHooked(heap, ret)

\* An unwrapped tree whose root held a container with a user module, itself
\* with a child, among its elements.
RoundTripWitness ==
    /\ pc = "unwrapped"
    /\ \E c \in Children(heap0, root) :
          /\ heap0[c].kind \in ContainerKinds
          /\ \E e \in Children(heap0, c) :
                heap0[e].kind = "Module" /\ Children(heap0, e) # {}

\* C8 as claimed: auto_hook(m).unwrap() returns m with no child, and no
\* element of a container child, left a HookedInstance.
UnwrapLeftInverse ==
    pc = "unwrap_called" =>
        /\ ret = root
        /\ \A c \in Children(heap, ret) :
              /\ heap[c].kind # "HookedInstance"
              /\ heap[c].kind \in ContainerKinds =>
                    \A e \in Children(heap, c) : heap[e].kind # "HookedInstance"

\* Element j of the container now standing where c stood under n is a
\* HookedInstance around element j of c, under the same key or index.
ElementWrapped(n, i, c, j) ==
    LET c2 == heap[n].mods[i][2]
    IN  /\ heap[c2].mods[j][1] = heap0[c].mods[j][1]
        /\ heap[heap[c2].mods[j][2]].kind = "HookedInstance"
        /\ GetAttr(heap, heap[c2].mods[j][2], "_module") = heap0[c].mods[j][2]

\* C10: after auto_hook(m), a child that was a ModuleList or Sequential of k
\* elements is a container of the same type with k HookedInstance elements,
\* element i around the original element i, and a child that was a
\* ModuleDict is a ModuleDict with the original keys, each mapped to a
\* HookedInstance around the original value.
ContainerFidelity ==
    pc = "hooked" =>
        \A n \in Wrapped0 : \A i \in 1..Len(heap0[n].mods) :
            LET c == heap0[n].mods[i][2]
                c2 == heap[n].mods[i][2]
            IN  heap0[c].kind \in ContainerKinds =>
                    /\ heap[n].mods[i][1] = heap0[n].mods[i][1]
                    /\ heap[c2].kind = heap0[c].kind
                    /\ Len(heap[c2].mods) = Len(heap0[c].mods)
                    /\ \A j \in 1..Len(heap0[c].mods) : ElementWrapped(n, i, c, j)

\* A hooked tree with a container of two elements, one of them a HookPoint.
ContainerFidelityWitness ==
    /\ pc = "hooked"
    /\ \E c \in Children(heap0, root) :
          /\ heap0[c].kind \in ContainerKinds
          /\ Len(heap0[c].mods) = 2
          /\ \E e \in Children(heap0, c) : heap0[e].kind = "HookPoint"

\* The name under which object c is a child of object p.
NameIn(h, p, c) ==
    h[p].mods[CHOOSE i \in 1..Len(h[p].mods) : h[p].mods[i][2] = c][1]

RECURSIVE Path0(_)
\* The dotted path of node n of the original tree, from the root.
Path0(n) ==
    IF n = root THEN <<>>
    ELSE Append(Path0(Parent0(n)), NameIn(heap0, Parent0(n), n))

\* The heap of auto_hook(m) for the original m, the result being the object
\* Len(heap0) + 1.
OnceHooked == auto_hook(heap0, root)

\* The hook points hooked.list_all_hooks() lists.
ListedHookPoints ==
    {list_all_hooks(heap, hooked)[i][2] : i \in 1..Len(list_all_hooks(heap, hooked))}

\* The listed hook points that belong to an instrumented node whose forward
\* is the forward of the original node n.
HookPointsOn(n) ==
    {hp \in ListedHookPoints :
        \E s \in 1..Len(heap) :
            /\ heap[s].kind = "HookedInstance"
            /\ heap[s].fwd = n
            /\ GetAttr(heap, s, "hook_point") = hp}

\* C2 as claimed: auto_hook applied to the result of auto_hook(m) leaves no
\* original node with two observation points, and yields the hook names of
\* auto_hook(m).
IdempotentWrap ==
    pc = "rehooked" =>
        /\ \A n \in Nodes0 : Cardinality(HookPointsOn(n)) <= 1
        /\ HookNames(heap, hooked) = HookNames(OnceHooked, Len(heap0) + 1)

KeptHookPoints0 ==
    {n \in Nodes0 \ Wrapped0 : heap0[n].kind = "HookPoint"}

Invocations(hp) ==
    Cardinality({i \in 1..Len(pass.trace) :
                    pass.trace[i].ev = "hook" /\ pass.trace[i].obj = hp})

\* The original module, not instrumented, runs on the arguments of the pass.
OriginalRuns ==
    ClassForward(heap0, root, pass.args, pass.kwargs,
                 [trace |-> <<>>, err |-> "none"]).err = "none"

\* C4 as claimed, for a module that runs when it is not instrumented and
\* has no attribute named hook_point anywhere: one forward pass with an
\* interceptor on each of the N names of list_all_hooks() completes and
\* invokes every interceptor exactly once, N invocations in all.
HookInvocationCount ==
    (/\ pc = "forwarded"
     /\ OriginalRuns
     /\ \A n \in Nodes0 : ~HasAttr(heap0, n, "hook_point")) =>
        /\ pass.err = "none"
        /\ \A hp \in ListedHookPoints : Invocations(hp) = 1
        /\ Cardinality({i \in 1..Len(pass.trace) : pass.trace[i].ev = "hook"})
               = Len(list_all_hooks(heap, hooked))

\* The instrumented counterpart o of node n of the original tree: the
\* HookedInstance around n, or for a container or HookPoint child the object
\* of the same kind standing in its place.
Counterpart(n, o) ==
    \/ heap[o].kind = "HookedInstance" /\ GetAttr(heap, o, "_module") = n
    \/ heap0[n].kind \in ContainerKinds \cup {"HookPoint"}
           /\ heap[o].kind = heap0[n].kind

\* C5 as claimed: a dotted path that resolves on the original module
\* resolves on auto_hook(m) too, to the instrumented counterpart.
PathsResolveOnWrapped ==
    (pc = "resolved" /\ lookup.path \in PathsFrom(heap0, root)) =>
        /\ lookup.obj # 0
        /\ Counterpart(get_attr_recursively(heap0, root, lookup.path).obj,
                       lookup.obj)

\* The positions of the pass's trace where a new_forward is entered.
Entered == {i \in 1..Len(pass.trace) : pass.trace[i].ev = "new_forward"}

NamedModulesOnce ==
    pc = "listed" =>
        /\ \A i, j \in 1..Len(yielded) :
              i # j => yielded[i] # yielded[j] /\ yielded[i][2] # yielded[j][2]
        /\ \A i, j \in 1..Len(yielded) :
              (/\ heap[yielded[i][2]].kind = "HookedInstance"
               /\ HasAttr(heap, yielded[i][2], "hook_point")
               /\ yielded[j][2] = GetAttr(heap, yielded[i][2], "hook_point")) =>
                  \A k \in 1..Len(yielded) :
                      (/\ Len(yielded[k][1]) > Len(yielded[i][1])
                       /\ SubSeq(yielded[k][1], 1, Len(yielded[i][1])) = yielded[i][1]
                       /\ k # j) => k < j

\* The construction got past argument validation and model resolution.
ModelResolved == pc = "adapted" /\ adapter.out.stage # "UNINITIALIZED"

\* C6 as claimed: without a tokenizer argument and without a tokenizer name
\* in the configuration, a construction with d_vocab declared ends
\* tokenizer resolution with no tokenizer, never applies the pad-token step
\* and goes on to bind the slots (it completes when the descriptor's paths
\* resolve); it fails with an assertion error only when d_vocab is -1.
TokenizerLessConstruction ==
    (/\ ModelResolved
     /\ ~adapter.in.tokenizer
     /\ adapter.in.tokenizer_name = "None") =>
        IF adapter.in.d_vocab = -1
        THEN adapter.out.error = "AssertionError"
        ELSE /\ adapter.out.tokenizer = "None"
             /\ ~adapter.out.pad_token_set
             /\ adapter.out.stage # "MODEL_RESOLVED"

\* The two input modes: a model name alone, or a model together with a
\* tokenizer.
NameAlone == adapter.in.hf_model_name /\ ~adapter.in.model /\ ~adapter.in.tokenizer

ModelWithTokenizer ==
    ~adapter.in.hf_model_name /\ adapter.in.model /\ adapter.in.tokenizer

\* C11: over the eight combinations of (hf_model_name, model, tokenizer)
\* given or not, a construction gets past argument validation and model
\* resolution exactly for a name alone or a model with a tokenizer; any
\* other combination raises ValueError with no model instrumented and no
\* slot bound.
InputModesExclusive ==
    pc = "adapted" =>
        /\ ModelResolved <=> (NameAlone \/ ModelWithTokenizer)
        /\ ~ModelResolved =>
               /\ adapter.out.error = "ValueError"
               /\ adapter.out.blocks = <<>>
               /\ hooked = 0
               /\ heap = heap0

\* A construction given a model and no tokenizer: validate_args lets it
\* through and the else branch of model resolution rejects it.
InputModesExclusiveWitness ==
    /\ pc = "adapted"
    /\ ~adapter.in.hf_model_name /\ adapter.in.model /\ ~adapter.in.tokenizer
    /\ ~validate_args(adapter.in)
    /\ adapter.out.error = "ValueError"

\* C12 as claimed: a forward pass through the instrumented module, on
\* arguments the original module runs on, completes, and every instrumented
\* node it enters has a hook point of its own through which the result of
\* its original forward passes exactly once.
ForwardHasHookPoint ==
    (pc = "forwarded" /\ OriginalRuns) =>
        /\ pass.err = "none"
        /\ \A i \in Entered :
              LET s == pass.trace[i].obj
              IN  /\ HasAttr(heap, s, "hook_point")
                  /\ Cardinality({j \in 1..Len(pass.trace) :
                         pass.trace[j] =
                             Event("hook", GetAttr(heap, s, "hook_point"),
                                   <<Result(heap[s].fwd)>>, {})}) = 1


RECURSIVE Positions(_, _, _)
\* The <<path, object>> pairs of the tree that object obj of heap h heads,
\* obj standing at path p: a child stands at the path of its parent extended
\* by its name, the module a HookedInstance wraps at the path of the
\* HookedInstance.
Positions(h, obj, p) ==
    {<<p, obj>>} \cup
    UNION {Positions(h, h[obj].mods[i][2],
                     IF h[obj].mods[i][1] = "_module" THEN p
                     ELSE Append(p, h[obj].mods[i][1])) :
              i \in 1..Len(h[obj].mods)}

\* The hook points of the instrumented tree, each with its path from the
\* root: the hook_point of every HookedInstance and every HookPoint child
\* left in place.  A HookPoint that is itself the module a HookedInstance
\* wraps (an element of a container) is a wrapped node and has no position
\* of its own.
ObservationPoints ==
    {x \in Positions(heap, hooked, <<>>) :
        /\ heap[x[2]].kind = "HookPoint"
        /\ x[1] # <<>>
        /\ \A s \in 1..Len(heap) :
              heap[s].kind = "HookedInstance" => GetAttr(heap, s, "_module") # x[2]}

\* The instrumented nodes below the root.
NestedInstances ==
    {x \in Positions(heap, hooked, <<>>) :
        heap[x[2]].kind = "HookedInstance" /\ x[2] # hooked}

Reached == {x[2] : x \in Positions(heap, hooked, <<>>)}

\* The instrumented nodes of the tree that wrap the original node n.
WrappersOf(n) ==
    {s \in Reached : heap[s].kind = "HookedInstance"
                     /\ GetAttr(heap, s, "_module") = n}

\* Some module or container of the instrumented tree holds n itself as a
\* child or element.
HeldBare(n) ==
    \E p \in Reached : heap[p].kind # "HookedInstance" /\ n \in Children(heap, p)

\* C14 as claimed: after auto_hook, also on a tree that holds one module at
\* two positions, an original node that is instrumented is wrapped by
\* exactly one instrumented node, owns at most one hook point through it,
\* and no position is left holding the node itself.
ExclusiveOwnership ==
    pc = "hooked" =>
        \A n \in Nodes0 :
            WrappersOf(n) # {} =>
                /\ Cardinality(WrappersOf(n)) = 1
                /\ Cardinality({GetAttr(heap, s, "hook_point") :
                                   s \in WrappersOf(n)} \ {0}) <= 1
                /\ ~HeldBare(n)

====
